---- MODULE Spec2Model ----
(***************************************************************************)
(* InvariantManagerImpl (src/invariant/InvariantManagerImpl.cpp): the      *)
(* registry of invariants, the enablement list, the three dispatch entry   *)
(* points and the failure handler.                                         *)
(*                                                                         *)
(* The manager's own state is mInvariants (name -> invariant) and mEnabled *)
(* (the invariants in enable order).  The metrics registry's counters and  *)
(* the log are the two sinks the manager writes to.  A dispatch call runs  *)
(* in steps (invoke one invariant, count its failure, handle its failure), *)
(* one per call the loop body makes; registerInvariant and enableInvariant *)
(* are one step each.                                                      *)
(***************************************************************************)
EXTENDS Integers, Sequences, FiniteSets, TLC

VARIABLES
    mInvariants,   \* std::map<std::string, std::shared_ptr<Invariant>>
    mEnabled,      \* std::vector<std::shared_ptr<Invariant>>
    counters,      \* the metrics registry: metric name -> counter value
    pc,            \* per thread: where its call into the manager stands
    frame,         \* per thread: the arguments of its current (or last) dispatch call
    idx,           \* per thread: position of the range-for loop in mEnabled
    message,       \* per thread: the formatted message of the failure in hand
    trace,         \* per thread: what its current (or last) call did, in order
    outcome,       \* per thread: how the last finished call ended
    registered,    \* history (SpecConfig only): names in registration order
    verdicts,      \* history: per name, the non-empty verdicts returned so far
    started,       \* history: a dispatch call has been entered
    externals      \* history (SpecBucket only): what the BucketList returned

vars == <<mInvariants, mEnabled, counters, pc, frame, idx, message, trace, outcome,
          registered, verdicts, started, externals>>

----------------------------------------------------------------------------
(* Bounds and input sets *)

\* A dispatch call starts only while every counter is below MaxCount.
MaxCount == 2

Threads == {"main", "worker"}
\* The thread that drives the pipeline in the sequential specification.
SeqThreads == {"main"}

\* Invariant objects: two of them share the name "a".
Instances == {"A1", "A2", "B", "C"}
NameOrder == <<"a", "b", "c">>
Names == {NameOrder[k] : k \in 1..Len(NameOrder)}

\* Invariant::getName
getName(i) ==
    CASE i = "A1" -> "a"
      [] i = "A2" -> "a"
      [] i = "B"  -> "b"
      [] i = "C"  -> "c"

\* Invariant::isStrict
isStrict(i) == i \in {"A1", "C"}

\* The verdicts a checker returns: the empty string, or a description.
Results == {"", "bad"}

LedgerSeqs == {7}
LedgerVersions == {7, 8, 9}
Levels == {1}
\* Values the BucketList's oldestLedgerIn{Curr,Snap} and sizeOf{Curr,Snap} return.
OldestLedgers == {0, 1}
BucketSizes == {0, 2}
\* What the four BucketList functions returned: none before a bucket apply.
NoExternals == <<>>

Stages == {"checkOnLedgerClose", "checkOnBucketApply", "checkOnOperationApply"}

NoFrame == [stage |-> "none", ledgerSeq |-> 0, ledgerVersion |-> 0,
            level |-> 0, isCurr |-> FALSE,
            oldestLedger |-> <<0, 0>>, newestLedger |-> <<0, 0>>]
NoOutcome == [op |-> "none", kind |-> "none", error |-> "none", msg |-> <<>>]

----------------------------------------------------------------------------
(* uint32_t arithmetic, on two 16-bit halves <<hi, lo>> *)

Half == 2^16

U32(n) == <<n \div Half, n % Half>>

U32Add(x, y) ==
    LET lo == x[2] + y[2]
        hi == x[1] + y[1] + (lo \div Half)
    IN  <<hi % Half, lo % Half>>

U32Sub(x, y) ==
    LET lo == x[2] - y[2]
        borrow == IF lo < 0 THEN 1 ELSE 0
        hi == x[1] - y[1] - borrow
    IN  <<(hi + Half) % Half, (lo + Half) % Half>>

U32Leq(x, y) == x[1] < y[1] \/ (x[1] = y[1] /\ x[2] <= y[2])

\* The largest uint32_t
MaxU32 == <<Half - 1, Half - 1>>

----------------------------------------------------------------------------
(* The std::map and the metrics registry *)

\* Variant of MapKeys for a container that keeps insertion order.
MapKeys_InsertionOrder(m) == SelectSeq(registered, LAMBDA n : n \in DOMAIN m)

\* Iteration order of std::map<std::string, ...>: ascending key order.
MapKeys(m) == SelectSeq(NameOrder, LAMBDA n : n \in DOMAIN m)

\* medida::MetricsRegistry::NewCounter: the counter of that name, created at
\* zero when the registry has none.
NewCounter(c, name) ==
    IF name \in DOMAIN c THEN c ELSE c @@ (name :> 0)

\* medida::Counter::inc on the counter of that name: one indivisible step.
CounterInc(c, name) == [c EXCEPT ![name] = @ + 1]

\* medida::MetricName{domain, type, name}
MetricName(domain, type, name) == <<domain, type, name>>

\* The metric name registerInvariant creates the counter under.
RegisteredCounter(invariant) ==
    MetricName("invariant", "does-not-hold", getName(invariant))

\* Variant of FailureCounter with another type component.
FailureCounter_OtherType(invariant) ==
    MetricName("invariant", "failure", getName(invariant))

\* The metric name onInvariantFailure looks the counter up under.
FailureCounter(invariant) ==
    MetricName("invariant", "does-not-hold", getName(invariant))

\* std::find(mEnabled.begin(), mEnabled.end(), ptr) != mEnabled.end()
Found(list, i) == \E k \in 1..Len(list) : list[k] = i

----------------------------------------------------------------------------
(* Trace events of a dispatch call *)

Event(ev, i, sev, res, msg, rng) ==
    [ev |-> ev, inv |-> i, sev |-> sev, result |-> res, msg |-> msg, range |-> rng]

NoRange == <<>>

Init ==
    /\ mInvariants = <<>>
    /\ mEnabled = <<>>
    /\ counters = <<>>
    /\ pc = [t \in Threads |-> "idle"]
    /\ frame = [t \in Threads |-> NoFrame]
    /\ idx = [t \in Threads |-> 0]
    /\ message = [t \in Threads |-> <<>>]
    /\ trace = [t \in Threads |-> <<>>]
    /\ outcome = [t \in Threads |-> NoOutcome]
    /\ registered = <<>>
    /\ verdicts = [n \in Names |-> 0]
    /\ started = FALSE
    /\ externals = NoExternals

----------------------------------------------------------------------------
(* Registration and enablement *)

AlreadyRegisteredMessage(name) == <<"Invariant ", name, " already registered">>

\* std::accumulate(first, last, init, op) over the keys, with
\* op(lhs, rhs) = lhs + ", " + rhs.first
RECURSIVE Accumulate(_, _, _)
Accumulate(keys, from, acc) ==
    IF from > Len(keys) THEN acc
    ELSE Accumulate(keys, from + 1, acc \o <<", ", keys[from]>>)

\* The message enableInvariant throws for a name that is not registered.
NotRegisteredMessage(m, name) ==
    LET keys == MapKeys(m)
        head == <<"Invariant ", name, " is not registered.">>
    IN  IF Len(keys) > 0
        THEN head \o <<" Registered invariants are: ">>
                  \o Accumulate(keys, 2, <<keys[1]>>)
        ELSE head \o <<" There are no registered invariants">>

AlreadyEnabledMessage(name) == <<"Invariant ", name, " already enabled">>

Threw(op, error, msg) == [op |-> op, kind |-> "threw", error |-> error, msg |-> msg]
Returned(op) == [op |-> op, kind |-> "returned", error |-> "none", msg |-> <<>>]

\* Variant of registerInvariant that stores the invariant without looking the
\* name up first: a second registration replaces the first.
registerInvariant_Overwrite(t, invariant) ==
    LET name == getName(invariant) IN
    /\ pc[t] = "idle"
    /\ mInvariants' = [n \in DOMAIN mInvariants \cup {name} |->
                          IF n = name THEN invariant ELSE mInvariants[n]]
    /\ counters' = NewCounter(counters, RegisteredCounter(invariant))
    /\ outcome' = [outcome EXCEPT ![t] = Returned("registerInvariant")]
    /\ frame' = [frame EXCEPT ![t] = NoFrame]
    /\ trace' = [trace EXCEPT ![t] = <<>>]
    /\ UNCHANGED <<mEnabled, pc, idx, message>>

registerInvariant(t, invariant) ==
    LET name == getName(invariant) IN
    /\ pc[t] = "idle"
    /\ IF name \notin DOMAIN mInvariants
       THEN /\ mInvariants' = mInvariants @@ (name :> invariant)
            /\ counters' = NewCounter(counters, RegisteredCounter(invariant))
            /\ outcome' = [outcome EXCEPT ![t] = Returned("registerInvariant")]
       ELSE /\ outcome' = [outcome EXCEPT ![t] =
                   Threw("registerInvariant", "std::runtime_error",
                         AlreadyRegisteredMessage(name))]
            /\ UNCHANGED <<mInvariants, counters>>
    /\ frame' = [frame EXCEPT ![t] = NoFrame]
    /\ trace' = [trace EXCEPT ![t] = <<>>]
    /\ UNCHANGED <<mEnabled, pc, idx, message>>

\* Variant of enableInvariant that puts the invariant at the front of mEnabled.
enableInvariant_Front(t, name) ==
    /\ pc[t] = "idle"
    /\ IF name \notin DOMAIN mInvariants
       THEN /\ outcome' = [outcome EXCEPT ![t] =
                   Threw("enableInvariant", "std::runtime_error",
                         NotRegisteredMessage(mInvariants, name))]
            /\ UNCHANGED mEnabled
       ELSE IF ~Found(mEnabled, mInvariants[name])
       THEN /\ mEnabled' = <<mInvariants[name]>> \o mEnabled
            /\ outcome' = [outcome EXCEPT ![t] = Returned("enableInvariant")]
       ELSE /\ outcome' = [outcome EXCEPT ![t] =
                   Threw("enableInvariant", "std::runtime_error",
                         AlreadyEnabledMessage(name))]
            /\ UNCHANGED mEnabled
    /\ frame' = [frame EXCEPT ![t] = NoFrame]
    /\ trace' = [trace EXCEPT ![t] = <<>>]
    /\ UNCHANGED <<mInvariants, counters, pc, idx, message>>

\* Variant of enableInvariant that appends without looking for the invariant
\* in mEnabled first.
enableInvariant_NoFind(t, name) ==
    /\ pc[t] = "idle"
    /\ IF name \notin DOMAIN mInvariants
       THEN /\ outcome' = [outcome EXCEPT ![t] =
                   Threw("enableInvariant", "std::runtime_error",
                         NotRegisteredMessage(mInvariants, name))]
            /\ UNCHANGED mEnabled
       ELSE /\ mEnabled' = Append(mEnabled, mInvariants[name])
            /\ outcome' = [outcome EXCEPT ![t] = Returned("enableInvariant")]
    /\ frame' = [frame EXCEPT ![t] = NoFrame]
    /\ trace' = [trace EXCEPT ![t] = <<>>]
    /\ UNCHANGED <<mInvariants, counters, pc, idx, message>>

\* Variant of enableInvariant that makes mEnabled read-only once a dispatch
\* call has been entered: it refuses every name from then on.
enableInvariant_Sealed(t, name) ==
    /\ pc[t] = "idle"
    /\ IF name \notin DOMAIN mInvariants
       THEN /\ outcome' = [outcome EXCEPT ![t] =
                   Threw("enableInvariant", "std::runtime_error",
                         NotRegisteredMessage(mInvariants, name))]
            /\ UNCHANGED mEnabled
       ELSE IF ~started /\ ~Found(mEnabled, mInvariants[name])
       THEN /\ mEnabled' = Append(mEnabled, mInvariants[name])
            /\ outcome' = [outcome EXCEPT ![t] = Returned("enableInvariant")]
       ELSE /\ outcome' = [outcome EXCEPT ![t] =
                   Threw("enableInvariant", "std::runtime_error",
                         AlreadyEnabledMessage(name))]
            /\ UNCHANGED mEnabled
    /\ frame' = [frame EXCEPT ![t] = NoFrame]
    /\ trace' = [trace EXCEPT ![t] = <<>>]
    /\ UNCHANGED <<mInvariants, counters, pc, idx, message>>

\* Variant of enableInvariant that appends the registered invariant first and
\* looks for an earlier entry afterwards.
enableInvariant_PushFirst(t, name) ==
    /\ pc[t] = "idle"
    /\ IF name \notin DOMAIN mInvariants
       THEN /\ outcome' = [outcome EXCEPT ![t] =
                   Threw("enableInvariant", "std::runtime_error",
                         NotRegisteredMessage(mInvariants, name))]
            /\ UNCHANGED mEnabled
       ELSE /\ mEnabled' = Append(mEnabled, mInvariants[name])
            /\ IF ~Found(mEnabled, mInvariants[name])
               THEN outcome' = [outcome EXCEPT ![t] = Returned("enableInvariant")]
               ELSE outcome' = [outcome EXCEPT ![t] =
                        Threw("enableInvariant", "std::runtime_error",
                              AlreadyEnabledMessage(name))]
    /\ frame' = [frame EXCEPT ![t] = NoFrame]
    /\ trace' = [trace EXCEPT ![t] = <<>>]
    /\ UNCHANGED <<mInvariants, counters, pc, idx, message>>

enableInvariant(t, name) ==
    /\ pc[t] = "idle"
    /\ IF name \notin DOMAIN mInvariants
       THEN /\ outcome' = [outcome EXCEPT ![t] =
                   Threw("enableInvariant", "std::runtime_error",
                         NotRegisteredMessage(mInvariants, name))]
            /\ UNCHANGED mEnabled
       ELSE IF ~Found(mEnabled, mInvariants[name])
       THEN /\ mEnabled' = Append(mEnabled, mInvariants[name])
            /\ outcome' = [outcome EXCEPT ![t] = Returned("enableInvariant")]
       ELSE /\ outcome' = [outcome EXCEPT ![t] =
                   Threw("enableInvariant", "std::runtime_error",
                         AlreadyEnabledMessage(name))]
            /\ UNCHANGED mEnabled
    /\ frame' = [frame EXCEPT ![t] = NoFrame]
    /\ trace' = [trace EXCEPT ![t] = <<>>]
    /\ UNCHANGED <<mInvariants, counters, pc, idx, message>>

----------------------------------------------------------------------------
(* The failure handler *)

\* Variant of onInvariantFailure that hands the failure on without counting it.
onInvariantFailure_NoInc(t) ==
    LET invariant == mEnabled[idx[t]]
    IN  /\ pc[t] = "onInvariantFailure"
        /\ counters' = NewCounter(counters, FailureCounter(invariant))
        /\ trace' = [trace EXCEPT ![t] =
               Append(@, Event("inc", invariant, "", "", <<>>, NoRange))]
        /\ pc' = [pc EXCEPT ![t] = "handleInvariantFailure"]
        /\ UNCHANGED <<mInvariants, mEnabled, frame, idx, message, outcome>>

\* Variant of onInvariantFailure whose increment is a load and a store in two
\* steps: the value loaded is kept in the trace until it is stored back.
onInvariantFailure_LoadThenStore(t) ==
    LET invariant == mEnabled[idx[t]]
        name == FailureCounter(invariant)
        c == NewCounter(counters, name)
        last == trace[t][Len(trace[t])]
    IN  /\ pc[t] = "onInvariantFailure"
        /\ IF last.ev # "load"
           THEN /\ counters' = c
                /\ trace' = [trace EXCEPT ![t] =
                       Append(@, Event("load", invariant, "", ToString(c[name]),
                                       <<>>, NoRange))]
                /\ UNCHANGED pc
           ELSE /\ \E v \in 0..(2 * MaxCount) :
                       /\ ToString(v) = last.result
                       /\ counters' = [c EXCEPT ![name] = v + 1]
                /\ trace' = [trace EXCEPT ![t] =
                       Append(@, Event("inc", invariant, "", "", <<>>, NoRange))]
                /\ pc' = [pc EXCEPT ![t] = "handleInvariantFailure"]
        /\ UNCHANGED <<mInvariants, mEnabled, frame, idx, message, outcome>>

\* Variant of onInvariantFailure that counts the failure on the counter of the
\* first enabled invariant.
onInvariantFailure_FirstCounter(t) ==
    LET invariant == mEnabled[idx[t]]
        name == FailureCounter(mEnabled[1])
    IN  /\ pc[t] = "onInvariantFailure"
        /\ counters' = CounterInc(NewCounter(counters, name), name)
        /\ trace' = [trace EXCEPT ![t] =
               Append(@, Event("inc", invariant, "", "", <<>>, NoRange))]
        /\ pc' = [pc EXCEPT ![t] = "handleInvariantFailure"]
        /\ UNCHANGED <<mInvariants, mEnabled, frame, idx, message, outcome>>

\* onInvariantFailure, up to its call of handleInvariantFailure: the counter
\* named after the invariant is looked up (or created) and incremented.
onInvariantFailure(t) ==
    LET invariant == mEnabled[idx[t]]
        name == FailureCounter(invariant)
    IN  /\ pc[t] = "onInvariantFailure"
        /\ counters' = CounterInc(NewCounter(counters, name), name)
        /\ trace' = [trace EXCEPT ![t] =
               Append(@, Event("inc", invariant, "", "", <<>>, NoRange))]
        /\ pc' = [pc EXCEPT ![t] = "handleInvariantFailure"]
        /\ UNCHANGED <<mInvariants, mEnabled, frame, idx, message, outcome>>

\* Variant of handleInvariantFailure that never throws: every failure is
\* logged at ERROR and the loop goes on.
handleInvariantFailure_NeverThrows(t) ==
    LET invariant == mEnabled[idx[t]] IN
    /\ pc[t] = "handleInvariantFailure"
    /\ trace' = [trace EXCEPT ![t] =
           Append(@, Event("log", invariant, "ERROR", "", message[t], NoRange))]
    /\ idx' = [idx EXCEPT ![t] = @ + 1]
    /\ pc' = [pc EXCEPT ![t] = "loop"]
    /\ message' = [message EXCEPT ![t] = <<>>]
    /\ UNCHANGED <<mInvariants, mEnabled, counters, frame, outcome>>

\* Variant of handleInvariantFailure that throws whatever isStrict says.
handleInvariantFailure_AlwaysThrows(t) ==
    LET invariant == mEnabled[idx[t]] IN
    /\ pc[t] = "handleInvariantFailure"
    /\ trace' = [trace EXCEPT ![t] = @ \o
           << Event("log", invariant, "FATAL", "", message[t], NoRange),
              Event("throw", invariant, "", "", message[t], NoRange) >>]
    /\ outcome' = [outcome EXCEPT ![t] =
           Threw(frame[t].stage, "InvariantDoesNotHold", message[t])]
    /\ pc' = [pc EXCEPT ![t] = "idle"]
    /\ message' = [message EXCEPT ![t] = <<>>]
    /\ UNCHANGED <<mInvariants, mEnabled, counters, frame, idx>>

\* Variant of handleInvariantFailure whose non-strict branch ends the loop
\* (the dispatch call returns without checking the rest).
handleInvariantFailure_StopsLoop(t) ==
    LET invariant == mEnabled[idx[t]] IN
    /\ pc[t] = "handleInvariantFailure"
    /\ IF isStrict(invariant)
       THEN /\ trace' = [trace EXCEPT ![t] = @ \o
                   << Event("log", invariant, "FATAL", "", message[t], NoRange),
                      Event("throw", invariant, "", "", message[t], NoRange) >>]
            /\ outcome' = [outcome EXCEPT ![t] =
                   Threw(frame[t].stage, "InvariantDoesNotHold", message[t])]
            /\ pc' = [pc EXCEPT ![t] = "idle"]
            /\ UNCHANGED idx
       ELSE /\ trace' = [trace EXCEPT ![t] =
                   Append(@, Event("log", invariant, "ERROR", "", message[t], NoRange))]
            /\ idx' = [idx EXCEPT ![t] = Len(mEnabled) + 1]
            /\ pc' = [pc EXCEPT ![t] = "loop"]
            /\ UNCHANGED outcome
    /\ message' = [message EXCEPT ![t] = <<>>]
    /\ UNCHANGED <<mInvariants, mEnabled, counters, frame>>

\* Variant of handleInvariantFailure that throws before it has logged.
handleInvariantFailure_ThrowsFirst(t) ==
    LET invariant == mEnabled[idx[t]] IN
    /\ pc[t] = "handleInvariantFailure"
    /\ IF isStrict(invariant)
       THEN /\ trace' = [trace EXCEPT ![t] =
                   Append(@, Event("throw", invariant, "", "", message[t], NoRange))]
            /\ outcome' = [outcome EXCEPT ![t] =
                   Threw(frame[t].stage, "InvariantDoesNotHold", message[t])]
            /\ pc' = [pc EXCEPT ![t] = "idle"]
            /\ UNCHANGED idx
       ELSE /\ trace' = [trace EXCEPT ![t] =
                   Append(@, Event("log", invariant, "ERROR", "", message[t], NoRange))]
            /\ idx' = [idx EXCEPT ![t] = @ + 1]
            /\ pc' = [pc EXCEPT ![t] = "loop"]
            /\ UNCHANGED outcome
    /\ message' = [message EXCEPT ![t] = <<>>]
    /\ UNCHANGED <<mInvariants, mEnabled, counters, frame>>

\* handleInvariantFailure: a strict invariant logs at FATAL and throws
\* InvariantDoesNotHold, which leaves the dispatch call; any other logs at
\* ERROR and returns to the loop.
handleInvariantFailure(t) ==
    LET invariant == mEnabled[idx[t]] IN
    /\ pc[t] = "handleInvariantFailure"
    /\ IF isStrict(invariant)
       THEN /\ trace' = [trace EXCEPT ![t] = @ \o
                   << Event("log", invariant, "FATAL", "", message[t], NoRange),
                      Event("throw", invariant, "", "", message[t], NoRange) >>]
            /\ outcome' = [outcome EXCEPT ![t] =
                   Threw(frame[t].stage, "InvariantDoesNotHold", message[t])]
            /\ pc' = [pc EXCEPT ![t] = "idle"]
            /\ UNCHANGED idx
       ELSE /\ trace' = [trace EXCEPT ![t] =
                   Append(@, Event("log", invariant, "ERROR", "", message[t], NoRange))]
            /\ idx' = [idx EXCEPT ![t] = @ + 1]
            /\ pc' = [pc EXCEPT ![t] = "loop"]
            /\ UNCHANGED outcome
    /\ message' = [message EXCEPT ![t] = <<>>]
    /\ UNCHANGED <<mInvariants, mEnabled, counters, frame>>

----------------------------------------------------------------------------
(* The dispatcher *)

BelowMaxCount ==
    /\ \A n \in DOMAIN counters : counters[n] < MaxCount
    /\ \A n \in Names : verdicts[n] < MaxCount

\* A dispatch call is entered: the range-for loop stands at mEnabled.begin().
Enter(t, f) ==
    /\ pc[t] = "idle"
    /\ BelowMaxCount
    /\ frame' = [frame EXCEPT ![t] = f]
    /\ idx' = [idx EXCEPT ![t] = 1]
    /\ trace' = [trace EXCEPT ![t] = <<>>]
    /\ pc' = [pc EXCEPT ![t] = "loop"]
    /\ UNCHANGED <<mInvariants, mEnabled, counters, message, outcome>>

\* One turn of the loop, given what the invariant's check returned: an empty
\* result continues with the next invariant, any other goes to
\* onInvariantFailure with the formatted message.
Checked(t, invariant, rng, result, msg) ==
    /\ trace' = [trace EXCEPT ![t] =
           Append(@, Event("check", invariant, "", result, <<>>, rng))]
    /\ IF result = ""
       THEN /\ idx' = [idx EXCEPT ![t] = @ + 1]
            /\ UNCHANGED <<pc, message>>
       ELSE /\ message' = [message EXCEPT ![t] = msg]
            /\ pc' = [pc EXCEPT ![t] = "onInvariantFailure"]
            /\ UNCHANGED idx
    /\ UNCHANGED <<mInvariants, mEnabled, counters, frame, outcome>>

\* The loop has reached mEnabled.end(): the dispatch call returns.
Leave(t) ==
    /\ pc' = [pc EXCEPT ![t] = "idle"]
    /\ outcome' = [outcome EXCEPT ![t] = Returned(frame[t].stage)]
    /\ UNCHANGED <<mInvariants, mEnabled, counters, frame, idx, message, trace>>

InLoop(t, stage) == pc[t] = "loop" /\ frame[t].stage = stage

LedgerCloseMessage(name, ledgerSeq, result) ==
    <<"invariant \"", name, "\" does not hold on ledger ", ToString(ledgerSeq),
      ": ", result, "\n", "xdr_to_string(transactions)">>

checkOnLedgerClose(t) ==
    \/ \E seq \in LedgerSeqs :
           Enter(t, [NoFrame EXCEPT !.stage = "checkOnLedgerClose", !.ledgerSeq = seq])
    \/ /\ InLoop(t, "checkOnLedgerClose")
       /\ idx[t] <= Len(mEnabled)
       /\ LET invariant == mEnabled[idx[t]] IN
          \E result \in Results :
              Checked(t, invariant, NoRange, result,
                      LedgerCloseMessage(getName(invariant), frame[t].ledgerSeq, result))
    \/ /\ InLoop(t, "checkOnLedgerClose")
       /\ idx[t] > Len(mEnabled)
       /\ Leave(t)

\* newestLedger = oldestLedger - 1 + size, in uint32_t
NewestLedger(oldestLedger, size) == U32Add(U32Sub(oldestLedger, U32(1)), size)

BucketApplyMessage(name, isCurr, level, result) ==
    <<"invariant \"", name, "\" does not hold on bucket ",
      IF isCurr THEN "Curr" ELSE "Snap", "[", ToString(level), "] = ",
      "binToHex(bucket->getHash())", ": ", result>>

\* What BucketList::oldestLedgerInCurr, oldestLedgerInSnap, sizeOfCurr and
\* sizeOfSnap return for (ledger, level).
External(oldestInCurr, oldestInSnap, sizeOfCurr, sizeOfSnap) ==
    [oldestLedgerInCurr |-> oldestInCurr, oldestLedgerInSnap |-> oldestInSnap,
     sizeOfCurr |-> sizeOfCurr, sizeOfSnap |-> sizeOfSnap]

\* Variant of BucketRange that reads the Curr values for a Snap bucket too.
BucketRange_AlwaysCurr(isCurr, ext) ==
    LET oldestLedger == ext.oldestLedgerInCurr
        newestLedger == NewestLedger(oldestLedger, ext.sizeOfCurr)
    IN  <<oldestLedger, newestLedger>>

\* The ledger range of the bucket, computed before the loop.
BucketRange(isCurr, ext) ==
    LET oldestLedger == IF isCurr THEN ext.oldestLedgerInCurr
                                  ELSE ext.oldestLedgerInSnap
        size == IF isCurr THEN ext.sizeOfCurr ELSE ext.sizeOfSnap
        newestLedger == NewestLedger(oldestLedger, size)
    IN  <<oldestLedger, newestLedger>>

\* checkOnBucketApply is entered with what the BucketList returns.
BucketApplyEnter(t, level, isCurr, ext) ==
    LET range == BucketRange(isCurr, ext)
    IN  Enter(t, [NoFrame EXCEPT !.stage = "checkOnBucketApply",
                                 !.level = level, !.isCurr = isCurr,
                                 !.oldestLedger = range[1],
                                 !.newestLedger = range[2]])

\* One turn of the loop of checkOnBucketApply, or its end.
BucketApplyLoop(t) ==
    \/ /\ InLoop(t, "checkOnBucketApply")
       /\ idx[t] <= Len(mEnabled)
       /\ LET invariant == mEnabled[idx[t]] IN
          \E result \in Results :
              Checked(t, invariant,
                      <<frame[t].oldestLedger, frame[t].newestLedger>>, result,
                      BucketApplyMessage(getName(invariant), frame[t].isCurr,
                                         frame[t].level, result))
    \/ /\ InLoop(t, "checkOnBucketApply")
       /\ idx[t] > Len(mEnabled)
       /\ Leave(t)

checkOnBucketApply(t) ==
    \/ \E level \in Levels, isCurr \in BOOLEAN,
          oc \in OldestLedgers, os \in OldestLedgers,
          sc \in BucketSizes, ss \in BucketSizes :
           BucketApplyEnter(t, level, isCurr, External(U32(oc), U32(os), U32(sc), U32(ss)))
    \/ BucketApplyLoop(t)

\* Operation checks start with this ledger (protocol) version.
OperationApplyMinVersion == 8

\* Variant of the version gate that also skips the first version that counts.
BelowMinVersion_OffByOne(version) == version <= OperationApplyMinVersion

\* delta.getHeader().ledgerVersion < 8
BelowMinVersion(version) == version < OperationApplyMinVersion

OperationApplyMessage(name, result) ==
    <<"Invariant \"", name, "\" does not hold on operation: ", result, "\n",
      "xdr_to_string(operation)">>

checkOnOperationApply(t) ==
    \/ \E version \in LedgerVersions :
           LET f == [NoFrame EXCEPT !.stage = "checkOnOperationApply",
                                    !.ledgerVersion = version]
           IN  IF BelowMinVersion(version)
               THEN /\ pc[t] = "idle"
                    /\ BelowMaxCount
                    /\ frame' = [frame EXCEPT ![t] = f]
                    /\ trace' = [trace EXCEPT ![t] = <<>>]
                    /\ outcome' = [outcome EXCEPT ![t] = Returned(f.stage)]
                    /\ UNCHANGED <<mInvariants, mEnabled, counters, pc, idx, message>>
               ELSE Enter(t, f)
    \/ /\ InLoop(t, "checkOnOperationApply")
       /\ idx[t] <= Len(mEnabled)
       /\ LET invariant == mEnabled[idx[t]] IN
          \E result \in Results :
              Checked(t, invariant, NoRange, result,
                      OperationApplyMessage(getName(invariant), result))
    \/ /\ InLoop(t, "checkOnOperationApply")
       /\ idx[t] > Len(mEnabled)
       /\ Leave(t)

----------------------------------------------------------------------------
(* Specifications *)

\* The step of t has appended a check with a non-empty verdict to its trace.
NewVerdict(t) ==
    /\ Len(trace'[t]) = Len(trace[t]) + 1
    /\ trace'[t][Len(trace'[t])].ev = "check"
    /\ trace'[t][Len(trace'[t])].result # ""

\* The history of the verdicts and of the first dispatch call, kept along
\* with a step of t.
Observe(t) ==
    /\ verdicts' = IF NewVerdict(t)
                   THEN [verdicts EXCEPT
                            ![getName(trace'[t][Len(trace'[t])].inv)] = @ + 1]
                   ELSE verdicts
    /\ started' = (started \/ frame'[t].stage \in Stages)

\* The manager driven by one thread: any sequence of calls.
Next ==
    \E t \in SeqThreads :
        \/ \E i \in Instances :
               registerInvariant(t, i) /\ Observe(t) /\ UNCHANGED <<registered, externals>>
        \/ \E n \in Names :
               enableInvariant(t, n) /\ Observe(t) /\ UNCHANGED <<registered, externals>>
        \/ checkOnLedgerClose(t) /\ Observe(t) /\ UNCHANGED <<registered, externals>>
        \/ checkOnBucketApply(t) /\ Observe(t) /\ UNCHANGED <<registered, externals>>
        \/ checkOnOperationApply(t) /\ Observe(t) /\ UNCHANGED <<registered, externals>>
        \/ onInvariantFailure(t) /\ Observe(t) /\ UNCHANGED <<registered, externals>>
        \/ handleInvariantFailure(t) /\ Observe(t) /\ UNCHANGED <<registered, externals>>

Spec == Init /\ [][Next]_vars

\* Node initialization: registration and enablement calls only, with the
\* order of the successful registrations recorded.
NextConfig ==
    \E t \in SeqThreads :
        \/ \E i \in Instances :
               /\ registerInvariant(t, i)
               /\ registered' = IF getName(i) \in DOMAIN mInvariants
                                THEN registered
                                ELSE Append(registered, getName(i))
               /\ UNCHANGED <<verdicts, started, externals>>
        \/ \E n \in Names :
               /\ enableInvariant(t, n)
               /\ UNCHANGED <<registered, verdicts, started, externals>>

SpecConfig == Init /\ [][NextConfig]_vars

\* The invariants of the concurrent specification: one non-strict, one strict.
ConcurrentInstances == {"B", "C"}

\* Node initialization by the main thread, then ledger-close dispatch from
\* every thread at once: no registration or enablement call runs once a
\* dispatch call has been entered.
NextConcurrent ==
    \/ \E t \in SeqThreads :
        \/ \E i \in ConcurrentInstances :
               /\ ~started
               /\ registerInvariant(t, i)
               /\ UNCHANGED <<registered, verdicts, started, externals>>
        \/ \E i \in ConcurrentInstances :
               /\ ~started
               /\ enableInvariant(t, getName(i))
               /\ UNCHANGED <<registered, verdicts, started, externals>>
    \/ \E t \in Threads :
        \/ checkOnLedgerClose(t) /\ Observe(t) /\ UNCHANGED <<registered, externals>>
        \/ onInvariantFailure(t) /\ Observe(t) /\ UNCHANGED <<registered, externals>>
        \/ handleInvariantFailure(t) /\ Observe(t) /\ UNCHANGED <<registered, externals>>

SpecConcurrent == Init /\ [][NextConcurrent]_vars

\* The invariants and the BucketList results of the bucket specification: the
\* ends of the uint32_t range among them.
BucketInstances == {"B", "C"}
BucketOldest == {U32(0), U32(1), MaxU32}
BucketSize == {U32(0), U32(1), U32(2)}

\* Registration, enablement and bucket applies, with what the BucketList
\* returned to the last bucket apply recorded.
NextBucket ==
    \E t \in SeqThreads :
        \/ \E i \in BucketInstances :
               /\ registerInvariant(t, i) /\ Observe(t)
               /\ externals' = NoExternals /\ UNCHANGED registered
        \/ \E i \in BucketInstances :
               /\ enableInvariant(t, getName(i)) /\ Observe(t)
               /\ externals' = NoExternals /\ UNCHANGED registered
        \/ \E level \in Levels, isCurr \in BOOLEAN,
              oc \in BucketOldest, os \in BucketOldest,
              sc \in BucketSize, ss \in BucketSize :
               /\ BucketApplyEnter(t, level, isCurr, External(oc, os, sc, ss))
               /\ Observe(t)
               /\ externals' = External(oc, os, sc, ss) /\ UNCHANGED registered
        \/ BucketApplyLoop(t) /\ Observe(t) /\ UNCHANGED <<registered, externals>>
        \/ onInvariantFailure(t) /\ Observe(t) /\ UNCHANGED <<registered, externals>>
        \/ handleInvariantFailure(t) /\ Observe(t) /\ UNCHANGED <<registered, externals>>

SpecBucket == Init /\ [][NextBucket]_vars

----------------------------------------------------------------------------
(* Vocabulary of the properties *)

\* The counter ("invariant", "does-not-hold", N) of the invariant named N.
CounterOf(name) == <<"invariant", "does-not-hold", name>>

PrefixOf(s, r) == Len(s) <= Len(r) /\ SubSeq(r, 1, Len(s)) = s

\* What follows position k in the trace of t.
After(t, k) == SubSeq(trace[t], k + 1, Len(trace[t]))

IsCheck(e) == e.ev = "check"
IsFailure(e) == e.ev = "check" /\ e.result # ""

\* The invariants checked so far by the call of t, in the order of the checks.
CheckedInvariants(t) ==
    LET checks == SelectSeq(trace[t], IsCheck)
    IN  [k \in 1..Len(checks) |-> checks[k].inv]

\* How often the call of t has checked invariant i.
TimesChecked(tr, i) ==
    Cardinality({k \in 1..Len(tr) : IsCheck(tr[k]) /\ tr[k].inv = i})

\* The message the stage of frame f formats for invariant i's result.
DiagnosticMessage(f, i, result) ==
    CASE f.stage = "checkOnLedgerClose" ->
             LedgerCloseMessage(getName(i), f.ledgerSeq, result)
      [] f.stage = "checkOnBucketApply" ->
             BucketApplyMessage(getName(i), f.isCurr, f.level, result)
      [] f.stage = "checkOnOperationApply" ->
             OperationApplyMessage(getName(i), result)

IncEvent(i) == Event("inc", i, "", "", <<>>, NoRange)
LogEvent(i, sev, msg) == Event("log", i, sev, "", msg, NoRange)
ThrowEvent(i, msg) == Event("throw", i, "", "", msg, NoRange)

\* Thread t takes the step.
Moved(t) ==
    <<pc[t], frame[t], idx[t], message[t], trace[t], outcome[t]>>
        # <<pc'[t], frame'[t], idx'[t], message'[t], trace'[t], outcome'[t]>>

\* The step appends exactly event e to the trace of t.
Appends(t, e) == trace'[t] = Append(trace[t], e)

\* The call of t is a dispatch call that has ended.
DispatchEnded(t) == pc[t] = "idle" /\ outcome[t].op \in Stages

\* First position of mEnabled holding a strict invariant that failed in
\* trace tr; Len(mEnabled) + 1 when there is none.
FirstStrictFailureIn(tr) ==
    LET hits == {j \in 1..Len(mEnabled) :
                    /\ isStrict(mEnabled[j])
                    /\ \E k \in 1..Len(tr) :
                           IsFailure(tr[k]) /\ tr[k].inv = mEnabled[j]}
    IN  IF hits = {} THEN Len(mEnabled) + 1
        ELSE CHOOSE j \in hits : \A h \in hits : j <= h

FirstStrictFailure(t) == FirstStrictFailureIn(trace[t])

\* The operation-apply call of frame f is skipped by the version gate.
Gated(f) == f.stage = "checkOnOperationApply" /\ f.ledgerVersion < 8

----------------------------------------------------------------------------
(* C1: a strict invariant that returns a non-empty verdict, in any of the    *)
(* three dispatch calls, has its counter incremented exactly once, then a    *)
(* FATAL log record carrying the diagnostic message is written, then         *)
(* InvariantDoesNotHold with that message leaves the dispatch call.          *)

C1_Shape ==
    \A t \in Threads : \A k \in 1..Len(trace[t]) :
        LET e == trace[t][k]
            msg == DiagnosticMessage(frame[t], e.inv, e.result)
            full == <<IncEvent(e.inv), LogEvent(e.inv, "FATAL", msg),
                      ThrowEvent(e.inv, msg)>>
        IN  (IsFailure(e) /\ isStrict(e.inv)) =>
                /\ PrefixOf(After(t, k), full)
                /\ pc[t] # "loop"
                /\ pc[t] = "idle" =>
                       /\ After(t, k) = full
                       /\ outcome[t] = Threw(frame[t].stage, "InvariantDoesNotHold", msg)

C1_Count ==
    \A t \in Threads :
        (Moved(t) /\ pc[t] \in {"onInvariantFailure", "handleInvariantFailure"}
                  /\ isStrict(mEnabled[idx[t]])) =>
            LET name == getName(mEnabled[idx[t]]) IN
            IF Appends(t, IncEvent(mEnabled[idx[t]]))
            THEN counters' = [counters EXCEPT ![CounterOf(name)] = @ + 1]
            ELSE counters' = counters

\* C1: the trace of a strict failure in every state, its counting in every step.
C1_StrictFailure == []C1_Shape /\ [][C1_Count]_vars

\* An operation-apply call at version 8 or later, ended by a strict failure.
C1_Witness ==
    /\ pc["main"] = "idle"
    /\ outcome["main"].error = "InvariantDoesNotHold"
    /\ outcome["main"].op = "checkOnOperationApply"
    /\ frame["main"].ledgerVersion >= 8
    /\ \E n \in DOMAIN counters : counters[n] = 1

----------------------------------------------------------------------------
(* C2 (as stated): after a non-strict invariant has returned a non-empty     *)
(* verdict, every invariant after it in the enablement list is invoked in    *)
(* that same dispatch call.                                                  *)

C2_Original ==
    \A t \in Threads :
        DispatchEnded(t) =>
            \A j \in 1..Len(mEnabled) :
                (/\ ~isStrict(mEnabled[j])
                 /\ \E k \in 1..Len(trace[t]) :
                        IsFailure(trace[t][k]) /\ trace[t][k].inv = mEnabled[j])
                => \A h \in (j + 1)..Len(mEnabled) :
                       TimesChecked(trace[t], mEnabled[h]) = 1

(* C2 (amended): a non-strict invariant that returns a non-empty verdict has *)
(* its counter incremented exactly once, an ERROR log record is written, no  *)
(* exception is raised on its account, and the loop goes on with the next    *)
(* invariant: every invariant after it is invoked in that call, up to and    *)
(* including the first strict invariant that returns a non-empty verdict.    *)

C2_Shape ==
    \A t \in Threads : \A k \in 1..Len(trace[t]) :
        LET e == trace[t][k]
            msg == DiagnosticMessage(frame[t], e.inv, e.result)
            own == <<IncEvent(e.inv), LogEvent(e.inv, "ERROR", msg)>>
            rest == After(t, k)
            j == CHOOSE j \in 1..Len(mEnabled) : mEnabled[j] = e.inv
        IN  (IsFailure(e) /\ ~isStrict(e.inv)) =>
                /\ PrefixOf(rest, own) \/ PrefixOf(own, rest)
                /\ \A m \in 1..Len(rest) : rest[m].ev = "throw" => rest[m].inv # e.inv
                /\ (Len(rest) > 2 /\ j < Len(mEnabled)) =>
                       IsCheck(rest[3]) /\ rest[3].inv = mEnabled[j + 1]
                /\ DispatchEnded(t) =>
                       /\ PrefixOf(own, rest)
                       /\ outcome[t].kind = "threw" => outcome[t].msg # msg
                       /\ \A h \in (j + 1)..Len(mEnabled) :
                              TimesChecked(trace[t], mEnabled[h]) =
                                  IF h <= FirstStrictFailure(t) THEN 1 ELSE 0

C2_Count ==
    \A t \in Threads :
        (Moved(t) /\ pc[t] \in {"onInvariantFailure", "handleInvariantFailure"}
                  /\ ~isStrict(mEnabled[idx[t]])) =>
            LET name == getName(mEnabled[idx[t]]) IN
            IF Appends(t, IncEvent(mEnabled[idx[t]]))
            THEN counters' = [counters EXCEPT ![CounterOf(name)] = @ + 1]
            ELSE counters' = counters /\ pc'[t] = "loop" /\ idx'[t] = idx[t] + 1

\* C2 (amended): the trace of a non-strict failure in every state, its counting
\* and the return to the loop in every step.
C2_NonStrictFailure == []C2_Shape /\ [][C2_Count]_vars

\* A non-strict failure followed by a passing check and a normal return.
C2_Witness ==
    /\ DispatchEnded("main")
    /\ outcome["main"].kind = "returned"
    /\ Len(mEnabled) = 3
    /\ ~isStrict(mEnabled[1])
    /\ \E k \in 1..Len(trace["main"]) :
           IsFailure(trace["main"][k]) /\ trace["main"][k].inv = mEnabled[1]
    /\ TimesChecked(trace["main"], mEnabled[3]) = 1

----------------------------------------------------------------------------
\* Invariant mEnabled[j] returned a non-empty verdict in the call of t.
FailedAt(t, j) ==
    \E k \in 1..Len(trace[t]) :
        IsFailure(trace[t][k]) /\ trace[t][k].inv = mEnabled[j]

(* C3 (as stated): in every dispatch call, the failure of one enabled        *)
(* invariant, strict or not, never prevents the invariants after it from     *)
(* being checked in that call.                                               *)

C3_Original ==
    \A t \in Threads :
        DispatchEnded(t) =>
            \A j \in 1..Len(mEnabled) :
                FailedAt(t, j) =>
                    \A h \in (j + 1)..Len(mEnabled) :
                        TimesChecked(trace[t], mEnabled[h]) = 1

(* C3 (amended): a non-strict invariant's failure never prevents the         *)
(* invariants after it from being checked at that stage; a strict            *)
(* invariant's failure ends the dispatch call, and no invariant after it in  *)
(* the enablement list is checked in that call.                              *)

C3_IndependentUnlessStrict ==
    \A t \in Threads :
        DispatchEnded(t) =>
            \A j \in 1..Len(mEnabled) :
                FailedAt(t, j) =>
                    \A h \in (j + 1)..Len(mEnabled) :
                        TimesChecked(trace[t], mEnabled[h]) =
                            IF isStrict(mEnabled[j]) THEN 0
                            ELSE IF h <= FirstStrictFailure(t) THEN 1 ELSE 0

\* A non-strict failure, then a strict failure, and a third invariant that
\* was never checked.
C3_Witness ==
    /\ DispatchEnded("main")
    /\ Len(mEnabled) = 3
    /\ ~isStrict(mEnabled[1]) /\ FailedAt("main", 1)
    /\ isStrict(mEnabled[2]) /\ FailedAt("main", 2)
    /\ TimesChecked(trace["main"], mEnabled[3]) = 0

----------------------------------------------------------------------------
\* Position in mEnabled of the invariant an event is about.
ListPosition(e) == CHOOSE j \in 1..Len(mEnabled) : mEnabled[j] = e.inv

(* C4: dispatch order is enable order.  A successful enableInvariant puts    *)
(* its invariant at the end of mEnabled, and a dispatch call checks the      *)
(* invariants in the order of mEnabled: everything the call does for A (its  *)
(* check, the count and the log of its failure) comes before B's check when  *)
(* A was enabled before B.                                                   *)

C4_Order ==
    \A t \in Threads :
        (pc[t] # "idle" \/ DispatchEnded(t)) =>
            /\ PrefixOf(CheckedInvariants(t), mEnabled)
            /\ \A k \in 1..Len(trace[t]) : Found(mEnabled, trace[t][k].inv)
            /\ \A k1, k2 \in 1..Len(trace[t]) :
                   (k1 < k2 /\ IsCheck(trace[t][k2])) =>
                       ListPosition(trace[t][k1]) < ListPosition(trace[t][k2])

C4_EnableAppends ==
    \A t \in Threads, n \in Names :
        (enableInvariant(t, n) /\ outcome'[t].kind = "returned") =>
            mEnabled' = Append(mEnabled, mInvariants[n])

\* C4: checks follow mEnabled in every state, and every successful enable appends.
C4_DispatchOrder == []C4_Order /\ [][C4_EnableAppends]_vars

\* Three invariants enabled against the order of their names, all checked,
\* the second one failing.
C4_Witness ==
    /\ DispatchEnded("main")
    /\ mEnabled = <<"C", "B", "A2">>
    /\ CheckedInvariants("main") = mEnabled
    /\ FailedAt("main", 2)

----------------------------------------------------------------------------
(* C5: InvariantDoesNotHold leaves a dispatch call only after the counter    *)
(* increment and then the FATAL log record of that failure: the order is     *)
(* increment, log, throw, and a throw is never seen without the two.         *)

C5_Order ==
    \A t \in Threads :
        /\ \A k \in 1..Len(trace[t]) :
               LET e == trace[t][k] IN
               e.ev = "throw" =>
                   /\ k >= 3
                   /\ trace[t][k - 2] = IncEvent(e.inv)
                   /\ trace[t][k - 1] = LogEvent(e.inv, "FATAL", e.msg)
                   /\ k = Len(trace[t])
                   /\ outcome[t] = Threw(frame[t].stage, "InvariantDoesNotHold", e.msg)
        /\ (pc[t] = "idle" /\ outcome[t].error = "InvariantDoesNotHold") =>
               /\ Len(trace[t]) >= 3
               /\ trace[t][Len(trace[t])].ev = "throw"

\* The step that throws finds the counter already incremented.
C5_ThrowStep ==
    \A t \in Threads :
        (Moved(t) /\ pc[t] # "idle" /\ outcome'[t].error = "InvariantDoesNotHold"
                  /\ pc'[t] = "idle") =>
            /\ Len(trace[t]) >= 1
            /\ trace[t][Len(trace[t])] = IncEvent(mEnabled[idx[t]])
            /\ counters' = counters

\* C5: increment, FATAL log, throw, in this order, in every state and step.
C5_CountLogThrow == []C5_Order /\ [][C5_ThrowStep]_vars

\* A bucket-apply call ended by InvariantDoesNotHold.
C5_Witness ==
    /\ pc["main"] = "idle"
    /\ outcome["main"].error = "InvariantDoesNotHold"
    /\ outcome["main"].op = "checkOnBucketApply"
    /\ trace["main"][Len(trace["main"])].ev = "throw"

----------------------------------------------------------------------------
(* C6: registerInvariant throws the "already registered" error whenever the  *)
(* name is registered already, for the same instance and for another one of  *)
(* that name, and changes nothing; with a new name it succeeds and the       *)
(* registry maps the name to the instance; every registered invariant that   *)
(* is not enabled yet can be enabled by its name.                            *)

C6_Register ==
    \A t \in Threads, i \in Instances :
        registerInvariant(t, i) =>
            IF getName(i) \in DOMAIN mInvariants
            THEN /\ outcome'[t].kind = "threw"
                 /\ outcome'[t].error = "std::runtime_error"
                 /\ outcome'[t].msg = <<"Invariant ", getName(i), " already registered">>
                 /\ mInvariants' = mInvariants
            ELSE /\ outcome'[t] = Returned("registerInvariant")
                 /\ DOMAIN mInvariants' = DOMAIN mInvariants \cup {getName(i)}
                 /\ mInvariants'[getName(i)] = i
                 /\ \A n \in DOMAIN mInvariants : mInvariants'[n] = mInvariants[n]

C6_EnableRegistered ==
    \A t \in Threads, n \in Names :
        (enableInvariant(t, n) /\ n \in DOMAIN mInvariants
                               /\ ~Found(mEnabled, mInvariants[n])) =>
            /\ outcome'[t] = Returned("enableInvariant")
            /\ Found(mEnabled', mInvariants[n])

\* C6: every registerInvariant step and every enableInvariant step of a
\* registered name behaves as described.
C6_DuplicateRegistration == [][C6_Register /\ C6_EnableRegistered]_vars

\* Two names registered and enabled, then a registration under a taken name
\* has been refused.
C6_Witness ==
    /\ outcome["main"].op = "registerInvariant"
    /\ outcome["main"].kind = "threw"
    /\ Cardinality(DOMAIN mInvariants) >= 2
    /\ Len(mEnabled) >= 2

----------------------------------------------------------------------------
NamePosition(n) == CHOOSE k \in 1..Len(NameOrder) : NameOrder[k] = n

\* o is the error of enableInvariant for a name that is not registered.
IsNotRegistered(o) ==
    /\ o.op = "enableInvariant" /\ o.kind = "threw"
    /\ Len(o.msg) >= 4 /\ o.msg[3] = " is not registered."

\* The names a "not registered" message lists, in the order it lists them.
ListedNames(msg) == [k \in 1..((Len(msg) - 3) \div 2) |-> msg[3 + 2 * k]]

(* C7: enableInvariant of a name that is not registered throws the "not      *)
(* registered" error; its message lists every registered name exactly once   *)
(* (or says that there are none), in ascending order of the names, whatever  *)
(* the order of the registrations was.                                       *)

C7_Fails ==
    \A t \in Threads, n \in Names :
        (enableInvariant(t, n) /\ n \notin DOMAIN mInvariants) =>
            /\ IsNotRegistered(outcome'[t])
            /\ outcome'[t].error = "std::runtime_error"
            /\ outcome'[t].msg[2] = n
            /\ mEnabled' = mEnabled

C7_Listing ==
    \A t \in Threads :
        IsNotRegistered(outcome[t]) =>
            LET msg == outcome[t].msg
                listed == ListedNames(msg)
            IN  IF DOMAIN mInvariants = {}
                THEN msg = <<"Invariant ", msg[2], " is not registered.",
                             " There are no registered invariants">>
                ELSE /\ msg[4] = " Registered invariants are: "
                     /\ Len(msg) = 3 + 2 * Len(listed)
                     /\ \A n \in DOMAIN mInvariants :
                            Cardinality({k \in 1..Len(listed) : listed[k] = n}) = 1
                     /\ \A k \in 1..Len(listed) : listed[k] \in DOMAIN mInvariants
                     /\ \A k \in 2..Len(listed) : msg[2 + 2 * k] = ", "
                     /\ \A k1, k2 \in 1..Len(listed) :
                            k1 < k2 => NamePosition(listed[k1]) < NamePosition(listed[k2])

\* C7: the error is thrown for every unregistered name, and its message lists
\* the registered names once each in ascending order.
C7_UnknownName == []C7_Listing /\ [][C7_Fails]_vars

\* The error has been thrown with "c" registered before "a".
C7_Witness ==
    /\ IsNotRegistered(outcome["main"])
    /\ registered = <<"c", "a">>

----------------------------------------------------------------------------
\* o is the error of enableInvariant for name n, enabled already.
IsAlreadyEnabled(o, n) ==
    /\ o.op = "enableInvariant" /\ o.kind = "threw"
    /\ o.msg = <<"Invariant ", n, " already enabled">>

\* The step ends a dispatch call of t.
EndsDispatch(t) ==
    /\ Moved(t) /\ pc'[t] = "idle"
    /\ outcome'[t].op \in Stages
    /\ pc[t] # "idle" \/ Gated(frame'[t])

(* C8 (as stated): after enableInvariant has refused a name that is enabled  *)
(* already, a subsequent dispatch call invokes that invariant exactly once.  *)

C8_OriginalStep ==
    \A t \in Threads, n \in DOMAIN mInvariants :
        (IsAlreadyEnabled(outcome[t], n) /\ EndsDispatch(t)) =>
            TimesChecked(trace'[t], mInvariants[n]) = 1

\* C8 (as stated): the dispatch call after a refused enable checks the
\* invariant exactly once.
C8_Original == [][C8_OriginalStep]_vars

(* C8 (amended): enabling a name that is enabled already throws the "already *)
(* enabled" error and leaves the enablement list as it was; a subsequent     *)
(* dispatch call invokes that invariant at most once: exactly once when the  *)
(* call reaches it, and not at all when the version gate skips the call or a *)
(* strict invariant before it in the list returns a non-empty verdict.       *)

C8_Rejected ==
    \A t \in Threads, n \in Names :
        (enableInvariant(t, n) /\ n \in DOMAIN mInvariants
                               /\ Found(mEnabled, mInvariants[n])) =>
            /\ outcome'[t].error = "std::runtime_error"
            /\ IsAlreadyEnabled(outcome'[t], n)
            /\ mEnabled' = mEnabled

C8_NextDispatch ==
    \A t \in Threads, n \in DOMAIN mInvariants :
        (IsAlreadyEnabled(outcome[t], n) /\ EndsDispatch(t)) =>
            LET i == mInvariants[n]
                j == CHOOSE j \in 1..Len(mEnabled) : mEnabled[j] = i
            IN  TimesChecked(trace'[t], i) =
                    IF Gated(frame'[t]) \/ FirstStrictFailureIn(trace'[t]) < j
                    THEN 0 ELSE 1

\* C8 (amended): the refused enable changes nothing, and the dispatch call
\* after it checks the invariant once if it reaches it and never twice.
C8_EnableTwice == [][C8_Rejected /\ C8_NextDispatch]_vars

\* The dispatch call that follows a refused enableInvariant("b") has checked
\* B once and is about to return.
C8_Witness ==
    /\ IsAlreadyEnabled(outcome["main"], "b")
    /\ pc["main"] = "loop"
    /\ idx["main"] > Len(mEnabled)
    /\ TimesChecked(trace["main"], "B") = 1

----------------------------------------------------------------------------
(* C9: checkOnOperationApply with a ledger version below 8 invokes no        *)
(* invariant, changes no counter, logs nothing and throws nothing, whatever  *)
(* the enabled invariants would return; from version 8 on it enters the loop *)
(* and checks the enabled invariants as the other stages do.                 *)

\* The step is the entry of t into checkOnOperationApply.
EntersOperationApply(t) ==
    /\ Moved(t) /\ pc[t] = "idle"
    /\ frame'[t].stage = "checkOnOperationApply"

C9_Step ==
    \A t \in Threads :
        EntersOperationApply(t) =>
            /\ trace'[t] = <<>>
            /\ counters' = counters
            /\ mEnabled' = mEnabled /\ mInvariants' = mInvariants
            /\ IF frame'[t].ledgerVersion < 8
               THEN /\ pc'[t] = "idle"
                    /\ outcome'[t] = Returned("checkOnOperationApply")
               ELSE /\ pc'[t] = "loop" /\ idx'[t] = 1
                    /\ outcome'[t] = outcome[t]

C9_Checked ==
    \A t \in Threads :
        (DispatchEnded(t) /\ frame[t].stage = "checkOnOperationApply") =>
            IF frame[t].ledgerVersion < 8
            THEN trace[t] = <<>> /\ outcome[t].kind = "returned"
            ELSE LET last == IF FirstStrictFailure(t) < Len(mEnabled)
                             THEN FirstStrictFailure(t) ELSE Len(mEnabled)
                 IN  CheckedInvariants(t) = SubSeq(mEnabled, 1, last)

\* C9: the version gate at the entry step, and what a finished
\* operation-apply call has checked.
C9_VersionGate == []C9_Checked /\ [][C9_Step]_vars

\* A skipped call, with a strict and a non-strict invariant enabled.
C9_Witness ==
    /\ DispatchEnded("main")
    /\ frame["main"].stage = "checkOnOperationApply"
    /\ frame["main"].ledgerVersion = 7
    /\ \E j, h \in 1..Len(mEnabled) : isStrict(mEnabled[j]) /\ ~isStrict(mEnabled[h])

----------------------------------------------------------------------------
(* C10: in every reachable state the enablement list has no duplicates and   *)
(* each of its entries is the registry's value for a registered name.        *)

C10_EnabledSubsetOfRegistry ==
    /\ \A j, h \in 1..Len(mEnabled) : mEnabled[j] = mEnabled[h] => j = h
    /\ \A j \in 1..Len(mEnabled) :
           \E n \in DOMAIN mInvariants : mInvariants[n] = mEnabled[j]

\* Three invariants enabled, a dispatch call behind, and a refused enable.
C10_Witness ==
    /\ Len(mEnabled) = 3
    /\ IsAlreadyEnabled(outcome["main"], "a")
    /\ \E n \in DOMAIN counters : counters[n] > 0

----------------------------------------------------------------------------
\* The value of the counter of the invariant named n: zero while the metrics
\* registry has no such counter.
CounterValue(n) ==
    IF CounterOf(n) \in DOMAIN counters THEN counters[CounterOf(n)] ELSE 0

\* The threads that hold a non-empty verdict of the invariant named n and have
\* not yet incremented its counter.
Pending(n) ==
    {t \in Threads : /\ pc[t] = "onInvariantFailure"
                     /\ getName(mEnabled[idx[t]]) = n}

(* C11: with dispatch calls running on several threads at once and no        *)
(* registration or enablement call among them, no increment is lost and none *)
(* is made twice: in every state the counter of every invariant plus the     *)
(* verdicts still waiting to be counted equals the number of non-empty       *)
(* verdicts returned for it on all threads, so that the counter equals that  *)
(* number whenever no thread stands between a verdict and its increment.     *)
C11_NoLostIncrement ==
    \A n \in Names : CounterValue(n) + Cardinality(Pending(n)) = verdicts[n]

\* Both threads have counted a failure of the same invariant and are still
\* inside the failure handler.
C11_Witness ==
    /\ pc["main"] = "handleInvariantFailure"
    /\ pc["worker"] = "handleInvariantFailure"
    /\ mEnabled[idx["main"]] = "B" /\ mEnabled[idx["worker"]] = "B"
    /\ counters[CounterOf("b")] = 2

----------------------------------------------------------------------------
(* C12: the registry and the enablement list only grow.  In every step the   *)
(* registered names keep every member they had, every registered name keeps  *)
(* the invariant it was mapped to, and mEnabled either stays as it is or has *)
(* one entry appended, so that every earlier enablement list is a prefix of  *)
(* every later one.                                                          *)
C12_Step ==
    /\ DOMAIN mInvariants \subseteq DOMAIN mInvariants'
    /\ \A n \in DOMAIN mInvariants : mInvariants'[n] = mInvariants[n]
    /\ PrefixOf(mEnabled, mEnabled')
    /\ Len(mEnabled') <= Len(mEnabled) + 1

\* C12: monotonic growth, in every step of every thread.
C12_Monotonic == [][C12_Step]_vars

\* The registry and the list have grown to three entries, "a" still maps to
\* the instance registered first although the other instance of that name has
\* just been offered, and dispatch calls lie behind.
C12_Witness ==
    /\ mEnabled = <<"C", "A1", "B">>
    /\ DOMAIN mInvariants = Names
    /\ mInvariants["a"] = "A1"
    /\ outcome["main"] = Threw("registerInvariant", "std::runtime_error",
                               AlreadyRegisteredMessage("a"))
    /\ started

----------------------------------------------------------------------------
(* C13: a successful registerInvariant(i) creates the counter                *)
(* ("invariant", "does-not-hold", name of i) with the value zero; the        *)
(* failure handler increments the counter of that same key, so the metrics   *)
(* registry holds exactly one counter per registered name and no other; and  *)
(* the counter stays at zero until the first non-empty verdict of the        *)
(* invariant is handled.                                                     *)

\* A successful registration creates the counter at zero and touches no other.
C13_RegisterStep ==
    \A t \in Threads, i \in Instances :
        (registerInvariant(t, i) /\ outcome'[t] = Returned("registerInvariant")) =>
            /\ CounterOf(getName(i)) \notin DOMAIN counters
            /\ DOMAIN counters' = DOMAIN counters \cup {CounterOf(getName(i))}
            /\ counters'[CounterOf(getName(i))] = 0
            /\ \A k \in DOMAIN counters : counters'[k] = counters[k]

\* The counters are those of the registered names.
C13_Keys == DOMAIN counters = {CounterOf(n) : n \in DOMAIN mInvariants}

\* The handler's increment goes to the counter the registration created.
C13_IncStep ==
    \A t \in Threads, i \in Instances :
        Appends(t, IncEvent(i)) =>
            /\ CounterOf(getName(i)) \in DOMAIN counters
            /\ counters' = [counters EXCEPT ![CounterOf(getName(i))] = @ + 1]

\* A counter with no verdict to count is zero, and a zero counter is left only
\* by the handler's increment.
C13_Zero ==
    \A n \in DOMAIN mInvariants : verdicts[n] = 0 => counters[CounterOf(n)] = 0

C13_LeavesZero ==
    \A k \in DOMAIN counters :
        (counters[k] = 0 /\ counters'[k] # 0) =>
            \E t \in Threads :
                /\ pc[t] = "onInvariantFailure"
                /\ Appends(t, IncEvent(mEnabled[idx[t]]))
                /\ k = CounterOf(getName(mEnabled[idx[t]]))
                /\ counters'[k] = 1

\* C13: creation at zero, one key for registration and failure, zero until the
\* first failure is handled.
C13_CounterCreated ==
    /\ [](C13_Keys /\ C13_Zero)
    /\ [][C13_RegisterStep /\ C13_IncStep /\ C13_LeavesZero]_vars

\* "b" and "c" are registered and enabled; a dispatch call has found "b" in
\* order and counted the first failure of "c".
C13_Witness ==
    /\ DOMAIN counters = {CounterOf("b"), CounterOf("c")}
    /\ counters[CounterOf("b")] = 0
    /\ counters[CounterOf("c")] = 1
    /\ mEnabled = <<"B", "C">>
    /\ pc["main"] = "handleInvariantFailure"
    /\ TimesChecked(trace["main"], "B") = 1

----------------------------------------------------------------------------
\* The call of t is a bucket apply, running or ended, not yet followed by
\* another call of t.
InBucketApply(t) == frame[t].stage = "checkOnBucketApply"

\* The oldest ledger and the size the BucketList returned for the half of the
\* bucket apply of t.
ReturnedOldest(t) ==
    IF frame[t].isCurr THEN externals.oldestLedgerInCurr
                       ELSE externals.oldestLedgerInSnap

ReturnedSize(t) ==
    IF frame[t].isCurr THEN externals.sizeOfCurr ELSE externals.sizeOfSnap

\* oldest + size - 1 stays within uint32_t, for a size of one at least.
RangeFits(oldest, size) ==
    /\ size # U32(0)
    /\ U32Leq(U32Sub(size, U32(1)), U32Sub(MaxU32, oldest))

(* C14 (as stated): the range checkOnBucketApply computes is well-formed,    *)
(* oldest <= newest, for every value the BucketList returns, a size of 0 and *)
(* an oldest ledger of 0 included.                                           *)
C14_Original ==
    \A t \in Threads :
        InBucketApply(t) => U32Leq(frame[t].oldestLedger, frame[t].newestLedger)

(* C14 (amended): checkOnBucketApply computes the range once before the loop *)
(* and passes the same pair to every enabled invariant.  oldest is           *)
(* oldestLedgerInCurr for a Curr bucket and oldestLedgerInSnap for a Snap    *)
(* bucket; newest is oldest + size - 1 modulo 2^32, with size from           *)
(* sizeOfCurr or sizeOfSnap in the same way.  The range is well-formed, with *)
(* newest - oldest = size - 1, when the size is 1 at least and               *)
(* oldest + size - 1 is at most 2^32 - 1.  For a size of 0 newest is         *)
(* oldest - 1: below oldest when oldest is 1 at least, and 2^32 - 1 when     *)
(* oldest is 0.  When oldest + size - 1 exceeds 2^32 - 1, newest wraps       *)
(* around to a value below oldest.                                           *)

\* The pair of the call, from what the BucketList returned for its half.
C14_Computed ==
    \A t \in Threads :
        InBucketApply(t) =>
            /\ frame[t].oldestLedger = ReturnedOldest(t)
            /\ frame[t].newestLedger =
                   U32Sub(U32Add(ReturnedOldest(t), ReturnedSize(t)), U32(1))

\* Every invariant checked by the call was passed the pair of the call.
C14_SamePair ==
    \A t \in Threads :
        InBucketApply(t) =>
            \A k \in 1..Len(trace[t]) :
                IsCheck(trace[t][k]) =>
                    trace[t][k].range =
                        <<frame[t].oldestLedger, frame[t].newestLedger>>

\* The pair is computed before the loop and not again.
C14_Once ==
    \A t \in Threads : (pc[t] # "idle") => (frame'[t] = frame[t])

\* When the pair is a well-formed range and when it is not.
C14_Shape ==
    \A t \in Threads :
        InBucketApply(t) =>
            LET oldest == frame[t].oldestLedger
                newest == frame[t].newestLedger
                size == ReturnedSize(t)
            IN  IF RangeFits(oldest, size)
                THEN /\ U32Leq(oldest, newest)
                     /\ U32Sub(newest, oldest) = U32Sub(size, U32(1))
                ELSE IF size = U32(0) /\ oldest = U32(0)
                THEN newest = MaxU32
                ELSE /\ ~U32Leq(oldest, newest)
                     /\ size = U32(0) => U32Add(newest, U32(1)) = oldest

C14_BucketRange ==
    /\ [](C14_Computed /\ C14_SamePair /\ C14_Shape)
    /\ [][C14_Once]_vars

\* A Snap bucket of size 0 whose oldest ledger is 1 has been applied: both
\* enabled invariants were passed the pair (1, 0), while the Curr bucket of
\* the level has another oldest ledger and another size.
C14_Witness ==
    /\ DispatchEnded("main") /\ InBucketApply("main")
    /\ ~frame["main"].isCurr
    /\ externals = External(MaxU32, U32(1), U32(2), U32(0))
    /\ frame["main"].oldestLedger = U32(1)
    /\ frame["main"].newestLedger = U32(0)
    /\ Len(mEnabled) = 2
    /\ Len(SelectSeq(trace["main"], IsCheck)) = 2

----------------------------------------------------------------------------
(* C15 (as stated): once a dispatch call has been entered, no                *)
(* registerInvariant or enableInvariant call changes the registry or the     *)
(* enablement list.                                                          *)
C15_OriginalStep ==
    started => (mInvariants' = mInvariants /\ mEnabled' = mEnabled)

C15_Original == [][C15_OriginalStep]_vars

(* C15 (amended): the manager does not make the registry and the enablement  *)
(* list read-only.  After dispatch calls have run, registerInvariant of a    *)
(* name not yet registered still adds it to the registry and                 *)
(* enableInvariant of a registered invariant not yet enabled still appends   *)
(* it to the enablement list, as they do before the first dispatch call.     *)
(* What holds is that with the calls made one at a time neither container    *)
(* changes while a dispatch loop is iterating the enablement list.           *)

\* Registration and enablement after the first dispatch call.
C15_AfterDispatch ==
    \A t \in Threads :
        /\ \A i \in Instances :
               (started /\ registerInvariant(t, i)
                        /\ getName(i) \notin DOMAIN mInvariants) =>
                   /\ mInvariants' = mInvariants @@ (getName(i) :> i)
                   /\ outcome'[t] = Returned("registerInvariant")
        /\ \A n \in DOMAIN mInvariants :
               (started /\ enableInvariant(t, n)
                        /\ ~Found(mEnabled, mInvariants[n])) =>
                   /\ mEnabled' = Append(mEnabled, mInvariants[n])
                   /\ outcome'[t] = Returned("enableInvariant")

\* No change of either container while a loop is iterating.
C15_WhileIterating ==
    (\E t \in Threads : pc[t] # "idle") =>
        (mInvariants' = mInvariants /\ mEnabled' = mEnabled)

C15_NotReadOnly == [][C15_AfterDispatch /\ C15_WhileIterating]_vars

\* An enableInvariant call has succeeded after a dispatch call that counted a
\* failure: the invariant it appended has never been checked.
C15_Witness ==
    /\ started
    /\ outcome["main"] = Returned("enableInvariant")
    /\ Len(mEnabled) = 2
    /\ CounterValue(getName(mEnabled[1])) = 1
    /\ verdicts[getName(mEnabled[2])] = 0

----------------------------------------------------------------------------
\* The step belongs to a dispatch call of t: its entry, or a step inside it.
DispatchStep(t) ==
    /\ Moved(t)
    /\ pc[t] # "idle" \/ frame'[t].stage \in Stages

\* The call of t has had a non-empty verdict from the invariant counted by k.
HasVerdict(t, k) ==
    \E j \in 1..Len(trace[t]) :
        /\ IsFailure(trace[t][j])
        /\ k = CounterOf(getName(trace[t][j].inv))

(* C16: every step of a dispatch call, in each of the three stages and       *)
(* whether the call goes on to return or to throw, leaves the registry and   *)
(* the enablement list as they are and creates no counter; a counter it      *)
(* changes is the counter of an invariant that has returned a non-empty      *)
(* verdict in this call, and it goes up by one.                              *)
C16_Step ==
    \A t \in Threads :
        DispatchStep(t) =>
            /\ mInvariants' = mInvariants
            /\ mEnabled' = mEnabled
            /\ DOMAIN counters' = DOMAIN counters
            /\ \A k \in DOMAIN counters :
                   counters'[k] # counters[k] =>
                       /\ HasVerdict(t, k)
                       /\ counters'[k] = counters[k] + 1

C16_Frame == [][C16_Step]_vars

\* A bucket apply that threw: "b" passed and its counter is untouched, "a"
\* failed and was counted, the registry still holds "c", which is not enabled.
C16_Witness ==
    /\ DispatchEnded("main")
    /\ outcome["main"].op = "checkOnBucketApply"
    /\ outcome["main"].error = "InvariantDoesNotHold"
    /\ mEnabled = <<"B", "A1">>
    /\ DOMAIN mInvariants = Names
    /\ CounterValue("b") = 0 /\ CounterValue("a") = 1 /\ CounterValue("c") = 0

----------------------------------------------------------------------------
\* The call of t has had a non-empty verdict from a strict invariant.
StrictVerdict(t) ==
    \E k \in 1..Len(trace[t]) :
        IsFailure(trace[t][k]) /\ isStrict(trace[t][k].inv)

\* The verdict the call of t got from the invariant at position j of mEnabled.
VerdictAt(t, j) ==
    LET k == CHOOSE k \in 1..Len(trace[t]) :
                 IsCheck(trace[t][k]) /\ trace[t][k].inv = mEnabled[j]
    IN  trace[t][k].result

(* C17: a dispatch call ends with InvariantDoesNotHold if and only if an     *)
(* enabled strict invariant returned a non-empty verdict when the call       *)
(* invoked it.  A call in which only non-strict invariants fail, and an      *)
(* operation-apply call skipped by the version gate, return normally.  The   *)
(* exception carries the diagnostic message of the first strict invariant,   *)
(* in enable order, that failed: every strict invariant enabled before it    *)
(* was invoked and returned the empty verdict.                               *)
C17_RaisesIffStrictFailure ==
    \A t \in Threads :
        DispatchEnded(t) =>
            /\ outcome[t].kind \in {"threw", "returned"}
            /\ outcome[t].kind = "threw" <=> StrictVerdict(t)
            /\ Gated(frame[t]) => outcome[t].kind = "returned"
            /\ outcome[t].kind = "returned" => outcome[t] = Returned(frame[t].stage)
            /\ outcome[t].kind = "threw" =>
                   LET j == FirstStrictFailure(t) IN
                   /\ j <= Len(mEnabled)
                   /\ outcome[t] = Threw(frame[t].stage, "InvariantDoesNotHold",
                                         DiagnosticMessage(frame[t], mEnabled[j],
                                                           VerdictAt(t, j)))
                   /\ outcome[t].msg[2] = getName(mEnabled[j])
                   /\ \A h \in 1..(j - 1) :
                          isStrict(mEnabled[h]) =>
                              /\ TimesChecked(trace[t], mEnabled[h]) = 1
                              /\ VerdictAt(t, h) = ""

\* A ledger close that returned normally although an invariant failed: the
\* strict "c" passed, the non-strict "b" failed and was counted.
C17_Witness ==
    /\ DispatchEnded("main")
    /\ outcome["main"] = Returned("checkOnLedgerClose")
    /\ mEnabled = <<"C", "B">>
    /\ VerdictAt("main", 1) = "" /\ VerdictAt("main", 2) # ""
    /\ CounterValue("b") = 1

----------------------------------------------------------------------------
(* C18: counter accounting.  Between calls, after any sequence of            *)
(* registerInvariant, enableInvariant and dispatch calls, the counter of     *)
(* every registered invariant equals the number of times its check was       *)
(* invoked and returned a non-empty verdict; no counter ever decreases or    *)
(* disappears; and the counter of an invariant that is registered but not    *)
(* enabled is zero.                                                          *)
C18_Count ==
    (\A t \in Threads : pc[t] = "idle") =>
        \A n \in DOMAIN mInvariants : counters[CounterOf(n)] = verdicts[n]

C18_NotEnabled ==
    \A n \in DOMAIN mInvariants :
        ~Found(mEnabled, mInvariants[n]) =>
            counters[CounterOf(n)] = 0 /\ verdicts[n] = 0

C18_NoDecrease ==
    \A k \in DOMAIN counters :
        k \in DOMAIN counters' /\ counters'[k] >= counters[k]

C18_Accounting == [](C18_Count /\ C18_NotEnabled) /\ [][C18_NoDecrease]_vars

\* Two dispatch calls lie behind: "b" failed in both, "a" in the last one
\* only, and "c" is registered but not enabled.
C18_Witness ==
    /\ DispatchEnded("main")
    /\ mEnabled = <<"B", "A2">>
    /\ DOMAIN mInvariants = Names
    /\ counters[CounterOf("b")] = 2
    /\ counters[CounterOf("a")] = 1
    /\ counters[CounterOf("c")] = 0
    /\ FailedAt("main", 1) /\ FailedAt("main", 2)

----------------------------------------------------------------------------
\* The trace of t holds an event of the invariant at position h of mEnabled.
Touched(t, h) ==
    \E k \in 1..Len(trace[t]) : trace[t][k].inv = mEnabled[h]

(* C19: a strict failure short-circuits the call.  Once a strict invariant S *)
(* has returned a non-empty verdict, the call invokes no invariant enabled   *)
(* after S and counts nothing for one: a step of the call changes a counter  *)
(* only when it records the increment for the invariant the loop stands at,  *)
(* and the loop never leaves S.  Every invariant enabled before S has been   *)
(* invoked once, and the call ends by throwing.                              *)
C19_Stops ==
    \A t \in Threads :
        StrictVerdict(t) =>
            LET j == FirstStrictFailure(t) IN
            /\ idx[t] = j
            /\ \A h \in 1..Len(mEnabled) :
                   /\ h > j => ~Touched(t, h)
                   /\ h <= j => TimesChecked(trace[t], mEnabled[h]) = 1
            /\ pc[t] = "idle" =>
                   /\ outcome[t].error = "InvariantDoesNotHold"
                   /\ trace[t][Len(trace[t])].ev = "throw"
                   /\ trace[t][Len(trace[t])].inv = mEnabled[j]

C19_CountStep ==
    \A t \in Threads :
        (Moved(t) /\ pc[t] # "idle" /\ counters' # counters) =>
            /\ pc[t] = "onInvariantFailure"
            /\ Appends(t, IncEvent(mEnabled[idx[t]]))
            /\ \A k \in DOMAIN counters :
                   k # CounterOf(getName(mEnabled[idx[t]])) =>
                       counters'[k] = counters[k]

C19_ShortCircuit == []C19_Stops /\ [][C19_CountStep]_vars

\* "a" failed in an earlier call.  In this one "b" failed and the strict "c"
\* after it: the call threw without invoking "a", whose counter is still 1.
C19_Witness ==
    /\ DispatchEnded("main")
    /\ outcome["main"].error = "InvariantDoesNotHold"
    /\ mEnabled = <<"B", "C", "A2">>
    /\ FailedAt("main", 1) /\ FailedAt("main", 2)
    /\ ~Touched("main", 3)
    /\ counters[CounterOf("a")] = 1
    /\ counters[CounterOf("b")] = 1
    /\ counters[CounterOf("c")] = 1

----------------------------------------------------------------------------
\* The step leaves the registry, the enablement list and the counters alone.
ConfigurationKept ==
    /\ mInvariants' = mInvariants
    /\ mEnabled' = mEnabled
    /\ counters' = counters

(* C20: configuration errors are atomic.  A registerInvariant call for a     *)
(* name that is registered already, an enableInvariant call for a name that  *)
(* is not registered and an enableInvariant call for an invariant that is    *)
(* enabled already each end with the error, and every call that ends with    *)
(* an error leaves the registry, the enablement list and every counter       *)
(* exactly as they were before the call.                                     *)
C20_Step ==
    \A t \in Threads :
        /\ \A i \in Instances :
               /\ (registerInvariant(t, i) /\ getName(i) \in DOMAIN mInvariants) =>
                      outcome'[t].kind = "threw"
               /\ (registerInvariant(t, i) /\ outcome'[t].kind = "threw") =>
                      ConfigurationKept
        /\ \A n \in Names :
               /\ (enableInvariant(t, n) /\ n \notin DOMAIN mInvariants) =>
                      outcome'[t].kind = "threw"
               /\ (enableInvariant(t, n) /\ n \in DOMAIN mInvariants
                                         /\ Found(mEnabled, mInvariants[n])) =>
                      outcome'[t].kind = "threw"
               /\ (enableInvariant(t, n) /\ outcome'[t].kind = "threw") =>
                      ConfigurationKept

C20_AtomicErrors == [][C20_Step]_vars

\* enableInvariant has refused the unregistered name "c" after a dispatch
\* call: the two enabled invariants and the counted failure of "a" are kept.
C20_Witness ==
    /\ outcome["main"] = Threw("enableInvariant", "std::runtime_error",
                               NotRegisteredMessage(mInvariants, "c"))
    /\ DOMAIN mInvariants = {"a", "b"}
    /\ mEnabled = <<"A2", "B">>
    /\ counters[CounterOf("a")] = 1
    /\ counters[CounterOf("b")] = 0

====
